---- MODULE Spec2Model ----
(***************************************************************************)
(* Model of index.js: the Adobe Sign -> Content Manager demo script.       *)
(*                                                                         *)
(* The script is a chain of five external calls, each started from the     *)
(* .then handler of the previous one:                                      *)
(*   refreshAdobeAccessToken -> downloadAgreementDocument -> createRecord  *)
(*   -> uploadDocument -> attachDocument                                   *)
(* Every call is  axios(config).then(onOk).catch(onErr)  (or the WebDAV    *)
(* equivalent), so onErr runs both when the call rejects and when onOk     *)
(* throws synchronously.                                                   *)
(*                                                                         *)
(* A JavaScript value that may be undefined is modelled as a set with at   *)
(* most one element: {} is undefined, {v} is the value v.  Strings that    *)
(* the script builds (the file name) are sequences of characters.          *)
(***************************************************************************)
EXTENDS Integers, Sequences, FiniteSets, TLC

\* ------------------------------------------------------------------ bounds
MaxRuns    == 2   \* executions of the script that are modelled, one after another
UuidLen    == 1   \* characters of a generated identifier
MaxUri     == 2   \* record Uris the Content Manager API may answer with
MaxResults == 1   \* entries of the Results array of a creation response

\* ------------------------------------------------------------------ values
Undefined == {}
Some(v)   == {v}
Value(o)  == CHOOSE v \in o : TRUE

\* String(x) of a possibly undefined string, as "a" + x does it
Str(o) == IF o = Undefined THEN "undefined" ELSE Value(o)

HexDigits    == {"a", "b"}
Uuids        == [1..UuidLen -> HexDigits]
Tokens       == {"tok-abc"}
AgreementIds == {"AGR-123"}
Documents    == {<<>>, <<37, 80, 68, 70>>}
WebDAVUrls   == {Undefined, Some("https://cm.example/webdav")}

\* AdobeSignWebhookExample.json as the script may find it
Fixtures ==
  {[file |-> "missing",   id |-> Undefined],
   [file |-> "malformed", id |-> Undefined],
   [file |-> "noAgreement", id |-> Undefined],
   [file |-> "ok", id |-> Undefined]}
  \cup {[file |-> "ok", id |-> Some(a)] : a \in AgreementIds}

\* response.data of the three calls whose answer the script reads
RefreshData == [access_token : {Undefined} \cup {Some(t) : t \in Tokens}]
ResultObjects == [Uri : {Undefined} \cup {Some(n) : n \in 1..MaxUri}]
ResultArrays == UNION {[1..k -> ResultObjects] : k \in 0..MaxResults}
CreateData == [Results : {Undefined} \cup {Some(rs) : rs \in ResultArrays}]

\* ------------------------------------------------------------------ state
VARIABLES
  run,                      \* which execution of the script this is
  started,                  \* the top-level code of the script has run
  uncaught,                 \* an exception reached the runtime's top level
  contentManagerWedDAVUrl,  \* process.env['CONTENT_MANAGER_WEBDAV_URL']
  gblAgreementId,           \* agreement id read from the fixture
  calls,                    \* external calls issued so far, each with its state
  log,                      \* lines written with console.log
  uuids,                    \* values uuidv4() returned in this execution
  prevPaths                 \* WebDAV paths written by earlier executions

vars == <<run, started, uncaught, contentManagerWedDAVUrl, gblAgreementId,
          calls, log, uuids, prevPaths>>

\* ------------------------------------------------------------------ console
red   == "[31m"
green == "[32m"

\* console.log(getTimeStamp(), color + text, resetColor)
LogLine(color, text) == [color |-> color, text |-> text]
\* console.log(error)
LogError == [color |-> "", text |-> "<error object>"]

gblCreateRecordJSON ==
  [RecordTitle |-> "Adobe Sign Integration Demo 3", RecordRecordType |-> "Document"]

\* JSON.stringify of an object: a property whose value is undefined is left out
JSONstringify(obj) ==
  [k \in {f \in DOMAIN obj : obj[f] # Undefined} |-> Value(obj[k])]

\* a variant of pdf: the extension without its dot
pdf_withoutDot == <<"p", "d", "f">>

pdf == <<".", "p", "d", "f">>

\* ------------------------------------------------------------------ calls
Pending == {i \in DOMAIN calls : calls[i].state = "pending"}
PendingOf(stage) == {i \in Pending : calls[i].stage = stage}
CallsOf(stage) == {i \in DOMAIN calls : calls[i].stage = stage}
Settle(i, how) == [calls EXCEPT ![i].state = how]

\* What a function of the script does when called: the calls it issues, or a
\* synchronous throw.
Issued(cs) == [threw |-> FALSE, issued |-> cs]
Throws     == [threw |-> TRUE, issued |-> <<>>]

refreshAdobeAccessToken ==
  Issued(<<[stage |-> "refresh", state |-> "pending", method |-> "POST",
            url |-> "/oauth/refresh"]>>)

downloadAgreementDocument(accessToken, agreementId) ==
  Issued(<<[stage |-> "download", state |-> "pending", method |-> "get",
            url |-> <<"/api/rest/v6/agreements/", Str(agreementId),
                      "/combinedDocument?attachSupportingDocuments=false">>,
            authorization |-> <<"Bearer ", Str(accessToken)>>]>>)

createRecord(jsonData, electronicDocument) ==
  Issued(<<[stage |-> "create", state |-> "pending", method |-> "post",
            url |-> "/Record",
            data |-> JSONstringify([f \in DOMAIN jsonData |-> Some(jsonData[f])]),
            electronicDocument |-> electronicDocument, response |-> Undefined]>>)

\* createClient of the webdav package parses the URL it is given
createClientThrows(url) == url = Undefined

\* a variant of uploadDocument: the attach POST is sent without waiting for
\* the upload to finish
uploadDocument_attachesAtOnce(uri, filename, electronicDocument) ==
  IF createClientThrows(contentManagerWedDAVUrl)
  THEN Throws
  ELSE Issued(<<[stage |-> "upload", state |-> "pending", method |-> "PUT",
                 path |-> <<"/">> \o filename, contents |-> electronicDocument,
                 uri |-> uri, filename |-> filename],
                [stage |-> "attach", state |-> "pending", method |-> "POST",
                 url |-> "/Record",
                 data |-> [f \in {"RecordFilePath"} |-> filename]]>>)

uploadDocument(uri, filename, electronicDocument) ==
  IF createClientThrows(contentManagerWedDAVUrl)
  THEN Throws
  ELSE Issued(<<[stage |-> "upload", state |-> "pending", method |-> "PUT",
                 path |-> <<"/">> \o filename, contents |-> electronicDocument,
                 uri |-> uri, filename |-> filename]>>)

attachDocument(jsonData) ==
  Issued(<<[stage |-> "attach", state |-> "pending", method |-> "POST",
            url |-> "/Record", data |-> JSONstringify(jsonData)]>>)

\* ------------------------------------------------------------------ actions
Init ==
  /\ run = 1
  /\ started = FALSE
  /\ uncaught = FALSE
  /\ contentManagerWedDAVUrl = Undefined
  /\ gblAgreementId = Undefined
  /\ calls = <<>>
  /\ log = <<>>
  /\ uuids = <<>>
  /\ prevPaths = {}

\* The top-level code: the constants read from the environment, the fixture,
\* and the call that starts the chain.
Main ==
  /\ ~started
  /\ started' = TRUE
  /\ \E url \in WebDAVUrls, fixture \in Fixtures :
       /\ contentManagerWedDAVUrl' = url
       /\ IF fixture.file # "ok"
          THEN \* readFileSync, JSON.parse or .agreement.id throws
               /\ uncaught' = TRUE
               /\ UNCHANGED <<gblAgreementId, calls>>
          ELSE /\ gblAgreementId' = fixture.id
               /\ calls' = calls \o refreshAdobeAccessToken.issued
               /\ UNCHANGED uncaught
  /\ UNCHANGED <<run, log, uuids, prevPaths>>

\* a variant of refreshAdobeAccessToken_then: the record is created without
\* the document having been downloaded
refreshAdobeAccessToken_then_skipsDownload ==
  \E i \in PendingOf("refresh"), data \in RefreshData :
    LET next == createRecord(gblCreateRecordJSON, <<>>) IN
      /\ calls' = Settle(i, "ok") \o next.issued
      /\ log' = Append(log, LogLine(green, "Adobe Sign Access Token updated."))
      /\ UNCHANGED <<run, started, uncaught, contentManagerWedDAVUrl,
                     gblAgreementId, uuids, prevPaths>>

refreshAdobeAccessToken_then ==
  \E i \in PendingOf("refresh"), data \in RefreshData :
    LET next == downloadAgreementDocument(data.access_token, gblAgreementId) IN
      /\ calls' = Settle(i, "ok") \o next.issued
      /\ log' = Append(log, LogLine(green, "Adobe Sign Access Token updated."))
      /\ UNCHANGED <<run, started, uncaught, contentManagerWedDAVUrl,
                     gblAgreementId, uuids, prevPaths>>

refreshAdobeAccessToken_catch ==
  \E i \in PendingOf("refresh") :
    /\ calls' = Settle(i, "failed")
    /\ log' = log \o <<LogLine(red, "Error updating Adobe Sign Access Token."),
                       LogError>>
    /\ UNCHANGED <<run, started, uncaught, contentManagerWedDAVUrl,
                   gblAgreementId, uuids, prevPaths>>

downloadAgreementDocument_then ==
  \E i \in PendingOf("download"), data \in Documents :
    LET electronicDocument == data   \* Buffer.from(response.data)
        next == createRecord(gblCreateRecordJSON, electronicDocument) IN
      /\ calls' = Settle(i, "ok") \o next.issued
      /\ log' = Append(log, LogLine(green, "Document downloaded from Adobe Sign."))
      /\ UNCHANGED <<run, started, uncaught, contentManagerWedDAVUrl,
                     gblAgreementId, uuids, prevPaths>>

\* a variant of downloadAgreementDocument_catch: the failure is swallowed
downloadAgreementDocument_catch_silent ==
  \E i \in PendingOf("download") :
    /\ calls' = Settle(i, "failed")
    /\ UNCHANGED <<run, started, uncaught, contentManagerWedDAVUrl,
                   gblAgreementId, log, uuids, prevPaths>>

downloadAgreementDocument_catch ==
  \E i \in PendingOf("download") :
    /\ calls' = Settle(i, "failed")
    /\ log' = log \o <<LogLine(green, "Error downloading document from Adobe Sign."),
                       LogError>>
    /\ UNCHANGED <<run, started, uncaught, contentManagerWedDAVUrl,
                   gblAgreementId, uuids, prevPaths>>

\* response.data.Results[0].Uri throws when there is no Results[0]
FirstResultThrows(data) ==
  \/ data.Results = Undefined
  \/ Len(Value(data.Results)) = 0

createRecord_onError ==
  <<LogLine(red, "Error creating Content Manager record."), LogError>>

createRecord_then ==
  \E i \in PendingOf("create"), data \in CreateData, uuid \in Uuids :
    LET filename == uuid \o pdf
        next == IF FirstResultThrows(data)
                THEN Throws
                ELSE uploadDocument(Value(data.Results)[1].Uri, filename,
                                    calls[i].electronicDocument) IN
      /\ calls' = [Settle(i, "ok") EXCEPT ![i].response = Some(data)] \o next.issued
      /\ uuids' = Append(uuids, uuid)
      /\ log' = Append(log, LogLine(green,
                   "New Content Manager record successfully created."))
                \o (IF next.threw THEN createRecord_onError ELSE <<>>)
      /\ UNCHANGED <<run, started, uncaught, contentManagerWedDAVUrl,
                     gblAgreementId, prevPaths>>

\* a variant of createRecord_catch: the upload is started although no record
\* was created
createRecord_catch_continues ==
  \E i \in PendingOf("create"), uuid \in Uuids :
    LET next == uploadDocument(Undefined, uuid \o pdf, calls[i].electronicDocument) IN
      /\ calls' = Settle(i, "failed") \o next.issued
      /\ log' = log \o createRecord_onError
      /\ uuids' = Append(uuids, uuid)
      /\ UNCHANGED <<run, started, uncaught, contentManagerWedDAVUrl,
                     gblAgreementId, prevPaths>>

createRecord_catch ==
  \E i \in PendingOf("create") :
    /\ calls' = Settle(i, "failed")
    /\ log' = log \o createRecord_onError
    /\ UNCHANGED <<run, started, uncaught, contentManagerWedDAVUrl,
                   gblAgreementId, uuids, prevPaths>>

uploadDocument_then ==
  \E i \in PendingOf("upload") :
    LET attachDocumentJSON ==
          [Uri |-> calls[i].uri, RecordFilePath |-> Some(calls[i].filename)]
        next == attachDocument(attachDocumentJSON) IN
      /\ calls' = Settle(i, "ok") \o next.issued
      /\ log' = Append(log, LogLine(green,
                   "Document successfully transferred to WebDAV folder."))
      /\ UNCHANGED <<run, started, uncaught, contentManagerWedDAVUrl,
                     gblAgreementId, uuids, prevPaths>>

\* a variant of uploadDocument_catch: the error is thrown again
uploadDocument_catch_rethrows ==
  \E i \in PendingOf("upload") :
    /\ calls' = Settle(i, "failed")
    /\ log' = Append(log, LogLine(red, "Error transferring file to WebDAV folder."))
    /\ uncaught' = TRUE
    /\ UNCHANGED <<run, started, contentManagerWedDAVUrl,
                   gblAgreementId, uuids, prevPaths>>

uploadDocument_catch ==
  \E i \in PendingOf("upload") :
    /\ calls' = Settle(i, "failed")
    /\ log' = log \o <<LogLine(red, "Error transferring file to WebDAV folder."),
                       LogError>>
    /\ UNCHANGED <<run, started, uncaught, contentManagerWedDAVUrl,
                   gblAgreementId, uuids, prevPaths>>

\* a variant of attachDocument_then: the answer of POST /Record is taken for
\* the answer of a record creation, and the document is uploaded again
attachDocument_then_uploadsAgain ==
  \E i \in PendingOf("attach"), u \in CallsOf("upload") :
    LET next == uploadDocument(calls[u].uri, calls[u].filename, calls[u].contents) IN
      /\ calls' = Settle(i, "ok") \o next.issued
      /\ log' = Append(log, LogLine(green,
                   "Document successfully attached to the Content Manager record."))
      /\ UNCHANGED <<run, started, uncaught, contentManagerWedDAVUrl,
                     gblAgreementId, uuids, prevPaths>>

attachDocument_then ==
  \E i \in PendingOf("attach") :
    /\ calls' = Settle(i, "ok")
    /\ log' = Append(log, LogLine(green,
                 "Document successfully attached to the Content Manager record."))
    /\ UNCHANGED <<run, started, uncaught, contentManagerWedDAVUrl,
                   gblAgreementId, uuids, prevPaths>>

\* a variant of attachDocument_catch: the attach POST is sent again
attachDocument_catch_retries ==
  \E i \in PendingOf("attach") :
    /\ calls' = Append(Settle(i, "failed"), calls[i])
    /\ log' = log \o <<LogLine(red,
                 "Error attaching document to the Content Manager record."),
                       LogError>>
    /\ UNCHANGED <<run, started, uncaught, contentManagerWedDAVUrl,
                   gblAgreementId, uuids, prevPaths>>

attachDocument_catch ==
  \E i \in PendingOf("attach") :
    /\ calls' = Settle(i, "failed")
    /\ log' = log \o <<LogLine(red,
                 "Error attaching document to the Content Manager record."),
                       LogError>>
    /\ UNCHANGED <<run, started, uncaught, contentManagerWedDAVUrl,
                   gblAgreementId, uuids, prevPaths>>

\* Nothing is left to run: the process exits.
Ended == started /\ Pending = {}

UploadPaths == {calls[i].path : i \in {j \in DOMAIN calls : calls[j].stage = "upload"}}

\* The script is executed again, as a new process.
NewRun ==
  /\ Ended
  /\ run < MaxRuns
  /\ run' = run + 1
  /\ prevPaths' = prevPaths \cup UploadPaths
  /\ started' = FALSE
  /\ uncaught' = FALSE
  /\ contentManagerWedDAVUrl' = Undefined
  /\ gblAgreementId' = Undefined
  /\ calls' = <<>>
  /\ log' = <<>>
  /\ uuids' = <<>>

Next ==
  \/ Main
  \/ refreshAdobeAccessToken_then
  \/ refreshAdobeAccessToken_catch
  \/ downloadAgreementDocument_then
  \/ downloadAgreementDocument_catch
  \/ createRecord_then
  \/ createRecord_catch
  \/ uploadDocument_then
  \/ uploadDocument_catch
  \/ attachDocument_then
  \/ attachDocument_catch
  \/ NewRun

Spec == Init /\ [][Next]_vars

\* Every call that was issued is answered, with success or with failure.
Settled ==
  \/ refreshAdobeAccessToken_then
  \/ refreshAdobeAccessToken_catch
  \/ downloadAgreementDocument_then
  \/ downloadAgreementDocument_catch
  \/ createRecord_then
  \/ createRecord_catch
  \/ uploadDocument_then
  \/ uploadDocument_catch
  \/ attachDocument_then
  \/ attachDocument_catch

FairSpec == Spec /\ WF_vars(Settled)

\* ------------------------------------------------------------------ properties
Order == <<"refresh", "download", "create", "upload", "attach">>

SuccessText ==
  [refresh  |-> "Adobe Sign Access Token updated.",
   download |-> "Document downloaded from Adobe Sign.",
   create   |-> "New Content Manager record successfully created.",
   upload   |-> "Document successfully transferred to WebDAV folder.",
   attach   |-> "Document successfully attached to the Content Manager record."]

FailureText ==
  [refresh  |-> "Error updating Adobe Sign Access Token.",
   download |-> "Error downloading document from Adobe Sign.",
   create   |-> "Error creating Content Manager record.",
   upload   |-> "Error transferring file to WebDAV folder.",
   attach   |-> "Error attaching document to the Content Manager record."]

Logged(text) == \E n \in DOMAIN log : log[n].text = text
SomeCall(stage, state) == \E i \in CallsOf(stage) : calls[i].state = state

\* The two terminal states of the chain
END    == Ended /\ log # <<>> /\ log[Len(log)].text = SuccessText.attach
FAILED == Ended /\ (uncaught \/ \E n \in DOMAIN log : log[n] = LogError)

LastTwo == SubSeq(log, Len(log) - 1, Len(log))
HandledBy(stage) ==
  /\ Len(log) >= 2
  /\ LastTwo[1].text = FailureText[stage]
  /\ LastTwo[2] = LogError

\* C1: the calls of a run are issued in the order refresh, download, record
\* creation, upload, attach, none skipped, and each call after the first only
\* once the success handler of the call before it has run.
C1_StrictOrder ==
  /\ Len(calls) <= Len(Order)
  /\ \A i \in DOMAIN calls :
       /\ calls[i].stage = Order[i]
       /\ i > 1 => /\ calls[i - 1].state = "ok"
                   /\ Logged(SuccessText[Order[i - 1]])

C1_Witness ==
  /\ Len(calls) = 5
  /\ calls[5].stage = "attach"
  /\ calls[5].state = "pending"

\* C2: a failed call of any stage ends the run in FAILED, and no call of a
\* later stage exists after it.
C2_FailureAborts ==
  \A i \in DOMAIN calls :
    calls[i].state = "failed" =>
      /\ FAILED
      /\ i = Len(calls)
      /\ \A k \in DOMAIN Order : k > i => CallsOf(Order[k]) = {}

C2_Witness ==
  /\ SomeCall("create", "failed")
  /\ CallsOf("upload") = {} /\ CallsOf("attach") = {}

\* C3 (as claimed): every attach POST has a body of exactly the two fields Uri
\* and RecordFilePath, the Uri being that of the first result of the creation
\* response of the run and RecordFilePath the name the upload wrote, without
\* the leading "/".
C3_AttachBody ==
  \A i \in CallsOf("attach") :
    /\ DOMAIN calls[i].data = {"Uri", "RecordFilePath"}
    /\ \E c \in CallsOf("create") :
         /\ calls[c].response # Undefined
         /\ ~FirstResultThrows(Value(calls[c].response))
         /\ Some(calls[i].data.Uri) = Value(Value(calls[c].response).Results)[1].Uri
    /\ \E u \in CallsOf("upload") :
         /\ calls[u].state = "ok"
         /\ calls[u].path = <<"/">> \o calls[i].data.RecordFilePath

\* C4: once the record exists, a failed upload or attach is the end of the
\* run: the record stays created and unlinked, after a failed attach the file
\* stays uploaded, and the failed call is the last call of the run.
C4_NoCompensation ==
  /\ SomeCall("upload", "failed") =>
       /\ Ended
       /\ [i \in DOMAIN calls |-> <<calls[i].stage, calls[i].state>>]
            = <<<<"refresh", "ok">>, <<"download", "ok">>, <<"create", "ok">>,
                <<"upload", "failed">>>>
  /\ SomeCall("attach", "failed") =>
       /\ Ended
       /\ [i \in DOMAIN calls |-> <<calls[i].stage, calls[i].state>>]
            = <<<<"refresh", "ok">>, <<"download", "ok">>, <<"create", "ok">>,
                <<"upload", "ok">>, <<"attach", "failed">>>>

C4_Witness == SomeCall("attach", "failed") /\ SomeCall("create", "ok")

\* C5: no call is issued twice in a run, and a successful attach issues nothing.
C5_AtMostOnce ==
  /\ \A i, j \in DOMAIN calls : calls[i].stage = calls[j].stage => i = j
  /\ SomeCall("attach", "ok") => Len(calls) = 5 /\ Pending = {}

C5_Witness == SomeCall("attach", "ok") /\ Cardinality(CallsOf("upload")) = 1

\* C6 (as claimed): whatever fails, a handler of the script logs a message and
\* the error object, the chain stops, and no exception reaches the top level.
C6_NothingEscapes ==
  /\ ~uncaught
  /\ \A i \in DOMAIN calls :
       calls[i].state = "failed" => HandledBy(calls[i].stage) /\ Ended

\* C6 (amended): a failed call, or a throw inside a success handler, is logged
\* by the .catch handler as a message followed by the error object and ends
\* the chain; the one exception that reaches the top level is thrown by the
\* reading of the fixture, before any call is issued and with nothing logged.
C6_HandledOnceStarted ==
  /\ uncaught => calls = <<>> /\ log = <<>> /\ Ended
  /\ \A i \in DOMAIN calls :
       calls[i].state = "failed" => HandledBy(calls[i].stage) /\ Ended
  /\ (Ended /\ ~uncaught /\ ~END) =>
       \E k \in DOMAIN Order : HandledBy(Order[k])

C6_Witness ==
  /\ SomeCall("download", "failed")
  /\ log[Len(log)] = LogError

\* C7 (as claimed): one file name per run, made after the record was created,
\* of the form <identifier>.pdf, and never one an earlier run uploaded under.
C7_UniquePerRun ==
  /\ Len(uuids) <= 1
  /\ \A u \in CallsOf("upload") : calls[u].path \notin prevPaths

\* C7 (amended): the file name is generated exactly once per run, only after
\* record creation has succeeded, and is <identifier> followed by ".pdf"; the
\* identifier is whatever uuidv4 returns, not checked against earlier runs.
C7_GeneratedOnce ==
  /\ Len(uuids) <= 1
  /\ Len(uuids) = 1 <=> SomeCall("create", "ok")
  /\ \A u \in CallsOf("upload") :
       /\ Len(uuids) = 1
       /\ uuids[1] \in Uuids
       /\ calls[u].filename = uuids[1] \o <<".", "p", "d", "f">>
       /\ calls[u].path = <<"/">> \o uuids[1] \o <<".", "p", "d", "f">>

C7_Witness ==
  /\ run = 2
  /\ \E u \in CallsOf("upload") : calls[u].path \notin prevPaths
  /\ prevPaths # {}

\* C8: at most one call is outstanding, and a call is issued only when the
\* call before it has completed.
C8_NoConcurrency ==
  /\ Cardinality(Pending) <= 1
  /\ \A i \in DOMAIN calls : i \in Pending => i = Len(calls)

C8_Witness == \E i \in Pending : calls[i].stage = "upload" /\ Len(calls) = 4

AllFiveOk ==
  /\ Len(calls) = 5
  /\ \A k \in DOMAIN Order : SomeCall(Order[k], "ok")

\* C9: if every issued call is answered, a run that has started ends in END or
\* in FAILED; after that it issues no call; and it ends in END exactly when
\* all five calls succeeded.
C9_Terminates ==
  /\ started ~> (END \/ FAILED)
  /\ [][((END \/ FAILED) /\ run' = run) => (calls' = calls /\ (END \/ FAILED)')]_vars
  /\ [](END <=> AllFiveOk)
  /\ [](~(END /\ FAILED))

C9_Witness == END /\ AllFiveOk /\ run = 2

\* C10 (as claimed): no stage logs both its success and its failure message,
\* and a failure message is logged only when the call of that stage failed.
C10_OneMessagePerStage ==
  \A k \in DOMAIN Order :
    /\ ~(Logged(SuccessText[Order[k]]) /\ Logged(FailureText[Order[k]]))
    /\ Logged(FailureText[Order[k]]) => SomeCall(Order[k], "failed")

====
